---- MODULE Spec2Model ----
(***************************************************************************)
(* Model of src/helper_function_dl.py: the dataset partitioner             *)
(* split_image_data and the dataset validator                              *)
(* checks_and_remove_invalid_images, both acting on a directory tree.      *)
(* The file system is the only state of the program; a call is modelled    *)
(* by its position (pc), the snapshot of os.listdir it iterates over and   *)
(* its local variables.                                                    *)
(***************************************************************************)
EXTENDS Integers, Sequences, FiniteSets, TLC

VARIABLES dirs, files, cfg, pc, todo, class_folder, todo_files,
          invalid_images, split_log, dirs0, files0, history

vars == <<dirs, files, cfg, pc, todo, class_folder, todo_files,
          invalid_images, split_log, dirs0, files0, history>>

----------------------------------------------------------------------------
(* Bounds of the model *)

\* number of files in the class folder dataset/cat
MaxFiles == 3

\* number of calls made in one session
MaxCalls == 2

----------------------------------------------------------------------------
(* File contents, as the image library sees them *)

JPEG_OK == [fmt |-> "JPEG", ok |-> TRUE]
PNG_OK  == [fmt |-> "PNG", ok |-> TRUE]
PNG_BAD == [fmt |-> "PNG", ok |-> FALSE]
JUNK    == [fmt |-> "", ok |-> FALSE]

\* Image.open(path): raises unless the bytes are identified as an image
OpenRaises(content) == content.fmt = ""

\* img.format of an opened image
ImageFormat(content) == content.fmt

\* img.verify(): raises when the structure of the image is broken
VerifyRaises(content) == ~content.ok

----------------------------------------------------------------------------
(* String functions, on the strings of the model *)

\* str.lower()
Lower(s) ==
  CASE s = ".JPG" -> ".jpg"
    [] s = ".PNG" -> ".png"
    [] s = "JPEG" -> "jpeg"
    [] s = "PNG"  -> "png"
    [] OTHER      -> s

\* ext.strip(".")
StripDot(s) ==
  CASE s = ".jpg"  -> "jpg"
    [] s = ".jpeg" -> "jpeg"
    [] s = ".png"  -> "png"
    [] s = ".gif"  -> "gif"
    [] s = ".bmp"  -> "bmp"
    [] s = ".txt"  -> "txt"
    [] OTHER       -> s

\* os.path.splitext(file_name)[-1]; a leading dot starts no extension
SplitExt(name) ==
  CASE name \in {"a.jpg", "e.jpg"}  -> ".jpg"
    [] name = "b.JPG"               -> ".JPG"
    [] name = "c.txt"               -> ".txt"
    [] name = "d.png"               -> ".png"
    [] name = "x-checkpoint.ipynb"  -> ".ipynb"
    [] name = "labels.csv"          -> ".csv"
    [] OTHER                        -> ""

----------------------------------------------------------------------------
(* The file system: dirs is the set of directory paths, files maps the    *)
(* path of every regular file to its content.  A path is a sequence of    *)
(* names.                                                                  *)

\* os.path.join(path, name)
Join(path, name) == Append(path, name)

\* os.path.isdir(path)
IsDir(path) == path \in dirs

Children(ds, fs, path) ==
  {q \in ds \cup DOMAIN fs :
      Len(q) = Len(path) + 1 /\ SubSeq(q, 1, Len(path)) = path}

\* os.listdir(path), as a set: the order of the listing is not specified
ListDirOf(ds, fs, path) == {q[Len(q)] : q \in Children(ds, fs, path)}

ListDir(path) == ListDirOf(dirs, files, path)

Prefixes(path) == {SubSeq(path, 1, k) : k \in 1..Len(path)}

\* os.makedirs(path, exist_ok=True) raises when a component is a regular file
MakedirsRaises(fs, path) == \E p \in Prefixes(path) : p \in DOMAIN fs

\* os.makedirs(path, exist_ok=True): the directories afterwards
Makedirs(ds, path) == ds \cup Prefixes(path)

\* shutil.copy(src, dst): dst names a directory -> the file goes inside it
CopyTarget(ds, src, dst) ==
  IF dst \in ds THEN Join(dst, src[Len(src)]) ELSE dst

\* shutil.copy(src, dst) raises IsADirectoryError / SameFileError
CopyRaises(ds, fs, src, dst) ==
  \/ src \in ds
  \/ src \notin DOMAIN fs
  \/ CopyTarget(ds, src, dst) = src
  \/ CopyTarget(ds, src, dst) \in ds

\* shutil.move in the place of shutil.copy: the source is gone afterwards
MoveFile(ds, fs, src, dst) ==
  LET t == CopyTarget(ds, src, dst)
  IN  [p \in (DOMAIN fs \cup {t}) \ {src} |-> IF p = t THEN fs[src] ELSE fs[p]]

\* shutil.copy(src, dst): the regular files afterwards
CopyFile(ds, fs, src, dst) ==
  LET t == CopyTarget(ds, src, dst)
  IN  [p \in DOMAIN fs \cup {t} |-> IF p = t THEN fs[src] ELSE fs[p]]

\* os.remove(path): the regular files afterwards
RemoveFile(fs, path) == [p \in DOMAIN fs \ {path} |-> fs[p]]

\* os.remove(path) raises on a directory
RemoveRaises(ds, path) == path \in ds

----------------------------------------------------------------------------
(* Arguments of the calls *)

source_dir == <<"dataset">>

base_directory == <<"dataset">>

\* (train_dir, test_dir): outside the source, inside the source as in the
\* docstring example, and train_dir being the source itself
Layouts ==
  { <<<<"out", "train">>, <<"out", "test">>>>,
    <<<<"dataset", "train">>, <<"dataset", "test">>>>,
    <<<<"dataset">>, <<"out", "test">>>> }

\* train_ratio as a fraction num/den; 4/5 is the default 0.8
Ratios ==
  { [num |-> 0, den |-> 1], [num |-> 1, den |-> 2], [num |-> 4, den |-> 5],
    [num |-> 1, den |-> 1], [num |-> -1, den |-> 2], [num |-> 3, den |-> 2] }

DefaultExtensions == {".jpg", ".jpeg", ".png", ".gif", ".bmp"}

ExtensionSets == { DefaultExtensions, {".jpg"}, {".JPG", ".PNG"} }

\* the remove argument ignored: invalid files are always removed
train_dir == cfg.train_dir

test_dir == cfg.test_dir

train_ratio == cfg.train_ratio

\* the remove argument ignored: invalid files are always removed
RemoveAlways == TRUE

remove == cfg.remove

\* valid_extensions after its normalisation to lower case
valid_extensions == {Lower(ext) : ext \in cfg.valid_extensions}

----------------------------------------------------------------------------
(* The dataset before the first call *)

FileNames == <<"a.jpg", "b.JPG", "c.txt", "d.png", "e.jpg">>

CatFiles == {FileNames[i] : i \in 1..MaxFiles}

\* two assignments of contents to the file names
ContentOf(variant, name) ==
  IF variant = 1
  THEN CASE name = "a.jpg" -> JPEG_OK
         [] name = "b.JPG" -> PNG_OK
         [] name = "c.txt" -> JPEG_OK
         [] name = "d.png" -> PNG_BAD
         [] OTHER          -> JUNK
  ELSE CASE name = "a.jpg" -> JUNK
         [] name = "b.JPG" -> JPEG_OK
         [] name = "c.txt" -> JUNK
         [] name = "d.png" -> PNG_OK
         [] OTHER          -> JPEG_OK

\* with nested, the class folder dog holds a directory next to its file
InitDirs(nested) ==
  { <<"dataset">>, <<"dataset", "cat">>, <<"dataset", "dog">>,
    <<"dataset", ".ipynb_checkpoints">> }
    \cup (IF nested THEN {<<"dataset", "dog", "old">>} ELSE {})

InitFilePaths ==
  {<<"dataset", "cat", n>> : n \in CatFiles}
    \cup { <<"dataset", "dog", "d.png">>,
           <<"dataset", ".ipynb_checkpoints", "x-checkpoint.ipynb">>,
           <<"dataset", "labels.csv">> }

InitFiles(variant) ==
  [p \in InitFilePaths |-> ContentOf(variant, p[Len(p)])]

DefaultLayout == <<<<"out", "train">>, <<"out", "test">>>>

DefaultRatio == [num |-> 4, den |-> 5]

InitRest ==
  /\ pc = "idle"
  /\ todo = {}
  /\ class_folder = ""
  /\ todo_files = {}
  /\ invalid_images = <<>>
  /\ split_log = {}
  /\ dirs0 = dirs
  /\ files0 = files
  /\ history = <<>>

\* a session of the partitioner: its arguments are drawn here
InitSplit ==
  /\ dirs = InitDirs(FALSE)
  /\ files = InitFiles(1)
  /\ \E l \in Layouts, r \in Ratios :
       cfg = [train_dir |-> l[1], test_dir |-> l[2], train_ratio |-> r,
              valid_extensions |-> DefaultExtensions, remove |-> FALSE]
  /\ InitRest

\* a session of the validator: its arguments are drawn here
InitCheck ==
  /\ \E nested \in BOOLEAN : dirs = InitDirs(nested)
  /\ \E variant \in {1, 2} : files = InitFiles(variant)
  /\ \E e \in ExtensionSets, rm \in BOOLEAN :
       cfg = [train_dir |-> DefaultLayout[1], test_dir |-> DefaultLayout[2],
              train_ratio |-> DefaultRatio,
              valid_extensions |-> e, remove |-> rm]
  /\ InitRest

----------------------------------------------------------------------------
(* split_image_data *)

\* round(total_files * train_ratio) in the place of int(...)
IntOfProductRounded(total_files, ratio) ==
  LET x == total_files * ratio.num
  IN  IF x >= 0 THEN (2 * x + ratio.den) \div (2 * ratio.den)
      ELSE -((2 * (-x) + ratio.den) \div (2 * ratio.den))

\* int(total_files * train_ratio): truncation towards zero
IntOfProduct(total_files, ratio) ==
  LET x == total_files * ratio.num
  IN  IF x >= 0 THEN x \div ratio.den ELSE -((-x) \div ratio.den)

\* the position a slice bound k denotes in a list of n elements
SliceBound(k, n) ==
  IF k < 0 THEN (IF n + k < 0 THEN 0 ELSE n + k)
  ELSE (IF k > n THEN n ELSE k)

\* files[:split_index]
SliceTo(list, k) == SubSeq(list, 1, SliceBound(k, Len(list)))

\* files[split_index - 1:] in the place of files[split_index:]: the file at
\* the boundary is on both sides
SliceFromOverlap(list, k) ==
  IF SliceBound(k, Len(list)) = 0 THEN list
  ELSE SubSeq(list, SliceBound(k, Len(list)), Len(list))

\* files[split_index:]
SliceFrom(list, k) == SubSeq(list, SliceBound(k, Len(list)) + 1, Len(list))

\* random.shuffle(files): every order of the listing
RECURSIVE Shuffles(_)
Shuffles(S) ==
  IF S = {} THEN {<<>>}
  ELSE UNION {{<<x>> \o rest : rest \in Shuffles(S \ {x})} : x \in S}

\* the second loop copying into train_subfolder too
CopiesAllToTrain(subfolder_path, train_subfolder, test_subfolder, train_files, test_files) ==
  [i \in 1..Len(train_files) |->
      <<Join(subfolder_path, train_files[i]), Join(train_subfolder, train_files[i])>>]
  \o
  [i \in 1..Len(test_files) |->
      <<Join(subfolder_path, test_files[i]), Join(train_subfolder, test_files[i])>>]

\* the copies of one class, in the order the two loops make them
Copies(subfolder_path, train_subfolder, test_subfolder, train_files, test_files) ==
  [i \in 1..Len(train_files) |->
      <<Join(subfolder_path, train_files[i]), Join(train_subfolder, train_files[i])>>]
  \o
  [i \in 1..Len(test_files) |->
      <<Join(subfolder_path, test_files[i]), Join(test_subfolder, test_files[i])>>]

\* the copies made one after the other, until one raises
RECURSIVE CopyAll(_, _, _)
CopyAll(ds, fs, copies) ==
  IF copies = <<>> THEN [files |-> fs, raised |-> FALSE]
  ELSE IF CopyRaises(ds, fs, Head(copies)[1], Head(copies)[2])
       THEN [files |-> fs, raised |-> TRUE]
       ELSE CopyAll(ds, CopyFile(ds, fs, Head(copies)[1], Head(copies)[2]),
                    Tail(copies))

ToSet(list) == {list[i] : i \in 1..Len(list)}

\* the call ends: its locals are gone, history keeps what it returned (a list,
\* kept as the set of its elements and its length)
Finished(fn, outcome, ret) ==
  /\ pc' = "idle"
  /\ todo' = {}
  /\ class_folder' = ""
  /\ todo_files' = {}
  /\ invalid_images' = <<>>
  /\ history' = Append(history, [fn |-> fn, outcome |-> outcome,
                                 ret |-> ToSet(ret), len |-> Len(ret)])

\* the call, up to the listing of source_dir
CallSplit ==
  /\ pc = "idle"
  /\ Len(history) < MaxCalls
  /\ dirs0' = dirs
  /\ files0' = files
  /\ split_log' = {}
  /\ UNCHANGED <<files, cfg>>
  /\ IF MakedirsRaises(files, train_dir)
     THEN /\ dirs' = dirs
          /\ Finished("split", "raised", <<>>)
     ELSE IF MakedirsRaises(files, test_dir)
     THEN /\ dirs' = Makedirs(dirs, train_dir)
          /\ Finished("split", "raised", <<>>)
     ELSE /\ dirs' = Makedirs(Makedirs(dirs, train_dir), test_dir)
          /\ pc' = "split"
          /\ todo' = ListDirOf(dirs', files, source_dir)
          /\ UNCHANGED <<class_folder, todo_files, invalid_images, history>>

\* one iteration of the loop over the subfolders
SplitSubfolder ==
  /\ pc = "split"
  /\ \E subfolder \in todo :
       LET subfolder_path == Join(source_dir, subfolder)
           listing == ListDir(subfolder_path)
       IN  IF ~IsDir(subfolder_path) \/ listing = {}
           THEN /\ todo' = todo \ {subfolder}
                /\ UNCHANGED <<dirs, files, pc, class_folder, todo_files,
                               invalid_images, split_log, history>>
           ELSE \E shuffled \in Shuffles(listing) :
                  LET split_index == IntOfProduct(Len(shuffled), train_ratio)
                      train_files == SliceTo(shuffled, split_index)
                      test_files == SliceFrom(shuffled, split_index)
                      train_subfolder == Join(train_dir, subfolder)
                      test_subfolder == Join(test_dir, subfolder)
                      entry == [subfolder |-> subfolder,
                                files |-> ToSet(shuffled),
                                train_files |-> ToSet(train_files),
                                test_files |-> ToSet(test_files),
                                n_train |-> Len(train_files),
                                n_test |-> Len(test_files)]
                  IN  IF MakedirsRaises(files, train_subfolder)
                      THEN /\ UNCHANGED <<dirs, files, split_log>>
                           /\ Finished("split", "raised", <<>>)
                      ELSE IF MakedirsRaises(files, test_subfolder)
                      THEN /\ dirs' = Makedirs(dirs, train_subfolder)
                           /\ UNCHANGED <<files, split_log>>
                           /\ Finished("split", "raised", <<>>)
                      ELSE LET ds == Makedirs(Makedirs(dirs, train_subfolder),
                                              test_subfolder)
                               done == CopyAll(ds, files,
                                         Copies(subfolder_path, train_subfolder,
                                                test_subfolder, train_files,
                                                test_files))
                           IN  /\ dirs' = ds
                               /\ files' = done.files
                               /\ IF done.raised
                                  THEN /\ UNCHANGED split_log
                                       /\ Finished("split", "raised", <<>>)
                                  ELSE /\ split_log' = split_log \cup {entry}
                                       /\ todo' = todo \ {subfolder}
                                       /\ UNCHANGED <<pc, class_folder,
                                                      todo_files,
                                                      invalid_images, history>>
  /\ UNCHANGED <<cfg, dirs0, files0>>

\* the loop is over: "Data split completed."
SplitReturn ==
  /\ pc = "split"
  /\ todo = {}
  /\ Finished("split", "returned", <<>>)
  /\ UNCHANGED <<dirs, files, cfg, split_log, dirs0, files0>>

----------------------------------------------------------------------------
(* checks_and_remove_invalid_images *)

\* the try block raises: open, the format test or verify
DecodeRaises(fs, file_path, extensions) ==
  \/ file_path \notin DOMAIN fs
  \/ OpenRaises(fs[file_path])
  \/ Lower(ImageFormat(fs[file_path])) \notin {StripDot(ext) : ext \in extensions}
  \/ VerifyRaises(fs[file_path])

\* the extension test left out: every file is judged by its content
FlaggedByContent(fs, class_folder_path, file_name, extensions) ==
  DecodeRaises(fs, Join(class_folder_path, file_name), extensions)

\* the file is appended to invalid_images
Flagged(fs, class_folder_path, file_name, extensions) ==
  IF Lower(SplitExt(file_name)) \in extensions
  THEN DecodeRaises(fs, Join(class_folder_path, file_name), extensions)
  ELSE TRUE

\* the call, up to the listing of base_directory
CallCheck ==
  /\ pc = "idle"
  /\ Len(history) < MaxCalls
  /\ dirs0' = dirs
  /\ files0' = files
  /\ invalid_images' = <<>>
  /\ pc' = "check"
  /\ todo' = ListDir(base_directory)
  /\ class_folder' = ""
  /\ todo_files' = {}
  /\ UNCHANGED <<dirs, files, cfg, split_log, history>>

\* the outer loop takes the next entry of base_directory
CheckFolder ==
  /\ pc = "check"
  /\ todo_files = {}
  /\ \E next_folder \in todo :
       /\ todo' = todo \ {next_folder}
       /\ IF IsDir(Join(base_directory, next_folder))
          THEN /\ class_folder' = next_folder
               /\ todo_files' = ListDir(Join(base_directory, next_folder))
          ELSE UNCHANGED <<class_folder, todo_files>>
  /\ UNCHANGED <<dirs, files, cfg, pc, invalid_images, split_log, dirs0,
                 files0, history>>

\* one iteration of the inner loop over the files of class_folder
CheckFile ==
  /\ pc = "check"
  /\ \E file_name \in todo_files :
       LET class_folder_path == Join(base_directory, class_folder)
           file_path == Join(class_folder_path, file_name)
           flagged == Flagged(files, class_folder_path, file_name,
                              valid_extensions)
       IN  IF flagged /\ remove /\ RemoveRaises(dirs, file_path)
           THEN /\ UNCHANGED files
                /\ Finished("check", "raised", <<>>)
           ELSE /\ invalid_images' =
                     IF flagged
                     THEN Append(invalid_images, <<file_name, class_folder>>)
                     ELSE invalid_images
                /\ files' = IF flagged /\ remove
                            THEN RemoveFile(files, file_path) ELSE files
                /\ todo_files' = todo_files \ {file_name}
                /\ UNCHANGED <<pc, todo, class_folder, history>>
  /\ UNCHANGED <<dirs, cfg, split_log, dirs0, files0>>

\* both loops are over: return invalid_images
CheckReturn ==
  /\ pc = "check"
  /\ todo = {}
  /\ todo_files = {}
  /\ Finished("check", "returned", invalid_images)
  /\ UNCHANGED <<dirs, files, cfg, split_log, dirs0, files0>>

----------------------------------------------------------------------------
(* The two specifications: a session calls one of the two functions, up to *)
(* MaxCalls times, with the arguments drawn in its initial state.          *)

NextSplit == CallSplit \/ SplitSubfolder \/ SplitReturn

SpecSplit == InitSplit /\ [][NextSplit]_vars

NextCheck == CallCheck \/ CheckFolder \/ CheckFile \/ CheckReturn

SpecCheck == InitCheck /\ [][NextCheck]_vars

----------------------------------------------------------------------------
(* Notions the properties are stated with *)

LastCall == history[Len(history)]

\* the last call of fn has returned (it did not raise)
Returned(fn) ==
  /\ pc = "idle"
  /\ history # <<>>
  /\ LastCall.fn = fn
  /\ LastCall.outcome = "returned"

\* the regular files that were directly inside a class folder when the
\* current (or last) call started
ClassFiles0 ==
  {p \in DOMAIN files0 : Len(p) = 3 /\ SubSeq(p, 1, 1) = source_dir}

\* the class folders that held at least one entry when the call started
NonEmptyClasses0 ==
  {c \in ListDirOf(dirs0, files0, source_dir) :
      /\ Join(source_dir, c) \in dirs0
      /\ ListDirOf(dirs0, files0, Join(source_dir, c)) # {}}

\* 0 <= train_ratio <= 1
RatioInRange == train_ratio.num >= 0 /\ train_ratio.num <= train_ratio.den

\* both destinations lie outside source_dir
DestinationsOutside ==
  /\ SubSeq(train_dir, 1, 1) # source_dir
  /\ SubSeq(test_dir, 1, 1) # source_dir

\* the format an extension claims
FormatOfExtension(ext) ==
  CASE ext \in {".jpg", ".jpeg"} -> "jpeg"
    [] ext = ".png"              -> "png"
    [] ext = ".gif"              -> "gif"
    [] ext = ".bmp"              -> "bmp"
    [] OTHER                     -> ""

\* root entries the data model reserves
Reserved == {".ipynb_checkpoints"}

----------------------------------------------------------------------------
(* split_image_data: properties *)

\* C1: after a completed call of split_image_data, every class folder that
\* was not empty has been split; the names placed in train_dir/C and those
\* placed in test_dir/C are disjoint, no name is placed twice, together they
\* are exactly the entries listed in source_dir/C, every one of them is at its
\* destination with the content of its source, and a destination folder the
\* call created holds exactly the names placed in it.
C1_PartitionCoversAndPartitions ==
  Returned("split") =>
    /\ {e.subfolder : e \in split_log} = NonEmptyClasses0
    /\ \A e \in split_log :
         LET subfolder_path == Join(source_dir, e.subfolder)
             train_subfolder == Join(train_dir, e.subfolder)
             test_subfolder == Join(test_dir, e.subfolder)
         IN  /\ e.train_files \cap e.test_files = {}
             /\ e.train_files \cup e.test_files = e.files
             /\ e.n_train = Cardinality(e.train_files)
             /\ e.n_test = Cardinality(e.test_files)
             /\ e.files = ListDirOf(dirs0, files0, subfolder_path)
             /\ \A f \in e.train_files :
                  /\ Join(train_subfolder, f) \in DOMAIN files
                  /\ files[Join(train_subfolder, f)] = files0[Join(subfolder_path, f)]
             /\ \A f \in e.test_files :
                  /\ Join(test_subfolder, f) \in DOMAIN files
                  /\ files[Join(test_subfolder, f)] = files0[Join(subfolder_path, f)]
             /\ (train_subfolder \notin dirs0 /\ train_dir # test_dir)
                  => ListDir(train_subfolder) = e.train_files
             /\ (test_subfolder \notin dirs0 /\ train_dir # test_dir)
                  => ListDir(test_subfolder) = e.test_files

\* a completed call that put files of a class of three on both sides
C1_Witness ==
  /\ Returned("split")
  /\ \E e \in split_log :
       /\ Cardinality(e.files) >= 3
       /\ e.train_files # {}
       /\ e.test_files # {}

\* C2: with 0 <= train_ratio <= 1, a class of n files gets exactly
\* floor(n * train_ratio) files in Train and the other n - floor(n * train_ratio)
\* in Test; ratio 0 leaves Train empty and ratio 1 leaves Test empty.
C2_RatioBound ==
  RatioInRange =>
    \A e \in split_log :
      LET n == Cardinality(e.files)
          k == (n * train_ratio.num) \div train_ratio.den
      IN  /\ e.n_train = k
          /\ e.n_test = n - k
          /\ Cardinality(e.train_files) = k
          /\ Cardinality(e.test_files) = n - k
          /\ train_ratio.num = 0 => e.train_files = {}
          /\ train_ratio.num = train_ratio.den => e.test_files = {}

\* the default ratio 0.8 on a class of at least three files, floor(n * 0.8)
\* being neither n * 0.8 nor its rounding up
C2_Witness ==
  /\ Returned("split")
  /\ train_ratio = DefaultRatio
  /\ \E e \in split_log :
       /\ Cardinality(e.files) >= 3
       /\ e.n_train = (Cardinality(e.files) * 4) \div 5
       /\ e.n_train * 5 # Cardinality(e.files) * 4

\* C3: whatever train_dir and test_dir are, and at every point of a call,
\* every file that was in a class folder of source_dir when the call started
\* is still at its path with its content.
C3_CopyPreservesSource ==
  \A p \in ClassFiles0 : p \in DOMAIN files /\ files[p] = files0[p]

\* a completed call with the destinations inside source_dir (the docstring's
\* example) that copied files to both of them
C3_Witness ==
  /\ Returned("split")
  /\ ~DestinationsOutside
  /\ train_dir # source_dir
  /\ \E e \in split_log : e.train_files # {} /\ e.test_files # {}

C10_RerunKeepsPartition ==
  (Returned("split") /\ DestinationsOutside /\ train_dir # test_dir
     /\ RatioInRange
     /\ \A i \in 1..Len(history) : history[i].outcome = "returned") =>
    \A c \in NonEmptyClasses0 :
      /\ ListDir(Join(train_dir, c)) \cap ListDir(Join(test_dir, c)) = {}
      /\ ListDir(Join(train_dir, c)) \cup ListDir(Join(test_dir, c))
           = ListDir(Join(source_dir, c))

\* C8 as stated: a completed call of either function (the partitioner's with
\* 0 <= train_ratio <= 1) has ignored the root
\* entries that are no directories and the reserved root directories: it
\* split none of them, created no destination folder for them, reported and
\* removed no file of theirs.
C8_ReservedEntriesIgnored ==
  (pc = "idle" /\ history # <<>> /\ LastCall.outcome = "returned"
     /\ (LastCall.fn = "split" => RatioInRange)) =>
    /\ \A e \in split_log :
         /\ Join(source_dir, e.subfolder) \in dirs0
         /\ e.subfolder \notin Reserved
    /\ \A r \in ListDirOf(dirs0, files0, source_dir) :
         (r \in Reserved \/ Join(source_dir, r) \notin dirs0) =>
           /\ Join(train_dir, r) \notin dirs \ dirs0
           /\ Join(test_dir, r) \notin dirs \ dirs0
    /\ \A entry \in LastCall.ret : entry[2] \notin Reserved
    /\ \A p \in ClassFiles0 : p[2] \in Reserved => p \in DOMAIN files

----------------------------------------------------------------------------
(* checks_and_remove_invalid_images: properties *)

\* C5: after a completed call, every file of a class folder whose lower-cased
\* extension is not in valid_extensions is in the result, whatever its
\* content; with remove it is gone, without remove it is still there with its
\* content.
C5_WrongExtensionFlagged ==
  Returned("check") =>
    \A p \in ClassFiles0 :
      Lower(SplitExt(p[3])) \notin valid_extensions =>
        /\ <<p[3], p[2]>> \in LastCall.ret
        /\ cfg.remove => p \notin DOMAIN files
        /\ ~cfg.remove => (p \in DOMAIN files /\ files[p] = files0[p])

\* a completed call with remove that deleted a .txt file holding an intact
\* JPEG image
C5_Witness ==
  /\ Returned("check")
  /\ cfg.remove
  /\ \E p \in ClassFiles0 :
       /\ SplitExt(p[3]) = ".txt"
       /\ files0[p] = JPEG_OK
       /\ p \notin DOMAIN files
       /\ <<p[3], p[2]>> \in LastCall.ret

\* C6 as stated: with ".jpg" in valid_extensions, a completed call neither
\* reports nor removes a file named *.jpg that holds an intact JPEG image, and
\* reports every file named *.jpg whose bytes are no image.
C6_GenuineJpegNeverReported ==
  (Returned("check") /\ ".jpg" \in valid_extensions) =>
    \A p \in ClassFiles0 :
      SplitExt(p[3]) = ".jpg" =>
        /\ files0[p] = JPEG_OK =>
             (<<p[3], p[2]>> \notin LastCall.ret /\ p \in DOMAIN files)
        /\ OpenRaises(files0[p]) => <<p[3], p[2]>> \in LastCall.ret

\* C7 as stated: a completed call reports every file whose extension is in
\* valid_extensions and whose content is an intact image of another format
\* than the one its own extension claims, and with remove deletes it.
C7_FormatMismatchFlagged ==
  Returned("check") =>
    \A p \in ClassFiles0 :
      ( /\ Lower(SplitExt(p[3])) \in valid_extensions
        /\ ~OpenRaises(files0[p])
        /\ ~VerifyRaises(files0[p])
        /\ Lower(ImageFormat(files0[p]))
             # FormatOfExtension(Lower(SplitExt(p[3]))) ) =>
        /\ <<p[3], p[2]>> \in LastCall.ret
        /\ cfg.remove => p \notin DOMAIN files

\* C9: a completed call without remove leaves every directory and file as it
\* was, and returns the same set of entries as the call before it when that
\* call was one without remove too.
C9_DryRunIdempotent ==
  (Returned("check") /\ ~cfg.remove) =>
    /\ files = files0
    /\ dirs = dirs0
    /\ LastCall.len = Cardinality(LastCall.ret)
    /\ (Len(history) >= 2 /\ history[Len(history) - 1].fn = "check"
          /\ history[Len(history) - 1].outcome = "returned") =>
         history[Len(history) - 1].ret = LastCall.ret

\* the second of two completed calls without remove, both reporting files
C9_Witness ==
  /\ Returned("check")
  /\ ~cfg.remove
  /\ Len(history) >= 2
  /\ history[Len(history) - 1].outcome = "returned"
  /\ Cardinality(LastCall.ret) >= 2

====
